---- MODULE Spec2Model ----
(***************************************************************************)
(* A model of the service-bindings client (nebhale/client-rust):           *)
(*   src/src/secret.rs    the key validator                                *)
(*   src/src/binding.rs   the Binding trait, CacheBinding,                 *)
(*                        ConfigTreeBinding, HashMapBinding                *)
(*   src/src/bindings.rs  cached, from, from_service_binding_root, find,   *)
(*                        filter_with_provider, filter                     *)
(*   src/tests/example.rs the documented consumer flow                     *)
(*                                                                         *)
(* A str, a Vec<u8>, an OsStr and a Path are sequences of byte values; the *)
(* bytes the model draws from are ASCII characters and 255, a byte that no *)
(* UTF-8 text contains.  An Option, a Result and a panic (an unwrap() of   *)
(* None or Err unwinding out of the call) are tagged records.              *)
(***************************************************************************)
EXTENDS Integers, Sequences, FiniteSets, TLC

VARIABLES
    bindings,   \* the Vec<impl Binding> the caller holds
    fs,         \* the directory tree under the service binding root
    env,        \* the value of $SERVICE_BINDING_ROOT: None or Some(path)
    binding,    \* the one Binding the caller holds and queries
    tree,       \* the directory at the root of a ConfigTreeBinding
    calls,      \* per key, how often delegate.get_as_bytes ran (the stub's counter)
    lookups,    \* per key, how often the caller's binding was asked for the key
    last        \* the last call: its operation, arguments, input and outcome

vars == <<bindings, fs, env, binding, tree, calls, lookups, last>>

-----------------------------------------------------------------------------
(* Bounds of the model. *)

MaxBindings == 3
MaxEntries == 4
MaxLookups == 2
MaxKeyLen == 3

-----------------------------------------------------------------------------
(* Option, Result and panic. *)

None == [tag |-> "None"]
Some(v) == [tag |-> "Some", v |-> v]
Ok(v) == [tag |-> "Ok", v |-> v]
Err(e) == [tag |-> "Err", e |-> e]
Return(v) == [tag |-> "Return", v |-> v]
Panic == [tag |-> "Panic"]

InvalidBindingError(message) == [message |-> message]

EmptyMap == [k \in {} |-> <<>>]

-----------------------------------------------------------------------------
(* Text. *)

PROVIDER == <<112, 114, 111, 118, 105, 100, 101, 114>>   \* "provider"
TYPE == <<116, 121, 112, 101>>                           \* "type"

\* u8::to_ascii_lowercase
ToAsciiLowercase(c) == IF c \in 65..90 THEN c + 32 ELSE c

\* str::eq_ignore_ascii_case
EqIgnoreAsciiCase(a, b) ==
    /\ Len(a) = Len(b)
    /\ \A i \in 1..Len(a) : ToAsciiLowercase(a[i]) = ToAsciiLowercase(b[i])

\* char::is_whitespace, on the one-byte characters
IsWhitespace(c) == c \in {9, 10, 11, 12, 13, 32}

\* str::trim
RECURSIVE TrimStart(_)
TrimStart(s) ==
    IF s # <<>> /\ IsWhitespace(Head(s)) THEN TrimStart(Tail(s)) ELSE s

RECURSIVE TrimEnd(_)
TrimEnd(s) ==
    IF s # <<>> /\ IsWhitespace(s[Len(s)])
    THEN TrimEnd(SubSeq(s, 1, Len(s) - 1))
    ELSE s

Trim(s) == TrimEnd(TrimStart(s))

\* str::from_utf8 succeeds: over the model's bytes, no byte is 128 or more
\* (a lone byte 255 is never valid UTF-8, an ASCII byte always is)
IsUtf8(b) == \A i \in 1..Len(b) : b[i] < 128

\* the character class [A-Za-z0-9\-_.] of VALID_SECRET_KEY
IsSecretKeyChar(c) ==
    \/ c \in 65..90
    \/ c \in 97..122
    \/ c \in 48..57
    \/ c \in {45, 95, 46}

\* the assertions of VALID_SECRET_KEY at an offset of the text: without the
\* multi-line flag ^ holds only at the start of the text and $ only at its end
StartOfText(key, s) == s = 0

\* a $ that also holds before a final line feed, as in other regex dialects
EndOfText_before_newline(key, e) ==
    \/ e = Len(key)
    \/ e = Len(key) - 1 /\ key[Len(key)] = 10

EndOfText(key, e) == e = Len(key)

\* ^[A-Za-z0-9\-_.]+$ matches key[s+1..e]: one or more characters of the class
\* between the two assertions
MatchAt(key, s, e) ==
    /\ StartOfText(key, s)
    /\ EndOfText(key, e)
    /\ e >= s + 1
    /\ \A i \in (s + 1)..e : IsSecretKeyChar(key[i])

\* secret::is_valid_secret_key: Regex::is_match, a match somewhere in the key
is_valid_secret_key(key) ==
    \E s \in 0..Len(key) : \E e \in s..Len(key) : MatchAt(key, s, e)

-----------------------------------------------------------------------------
(* Paths (std::path), as far as ConfigTreeBinding uses them. *)

\* the segments of a path between its '/' separators
RECURSIVE Segments(_)
FirstSlash(p) ==
    CHOOSE j \in 1..(Len(p) + 1) :
        /\ j <= Len(p) => p[j] = 47
        /\ \A k \in 1..(j - 1) : p[k] # 47

Segments(p) ==
    IF FirstSlash(p) > Len(p)
    THEN <<p>>
    ELSE <<SubSeq(p, 1, FirstSlash(p) - 1)>>
             \o Segments(SubSeq(p, FirstSlash(p) + 1, Len(p)))

\* Path::file_name: the last component when it is a normal one.  Of the
\* segments, Path::components drops the empty ones and every "." but a leading
\* one; a last component "." or ".." is not a normal one
LastComponent(segs) ==
    CHOOSE j \in 0..Len(segs) :
        /\ j > 0 => segs[j] # <<>> /\ (segs[j] = <<46>> => j = 1)
        /\ \A k \in (j + 1)..Len(segs) : segs[k] = <<>> \/ (segs[k] = <<46>> /\ k # 1)

NormalName(segs, i) ==
    IF i = 0 \/ segs[i] = <<46>> \/ segs[i] = <<46, 46>>
    THEN None
    ELSE Some(segs[i])

file_name(p) == NormalName(Segments(p), LastComponent(Segments(p)))

\* Path::file_stem: the file name up to its last '.', the whole file name when
\* it has no '.' or only a leading one
LastDot(file) ==
    CHOOSE j \in 0..Len(file) :
        /\ j > 0 => file[j] = 46
        /\ \A k \in (j + 1)..Len(file) : file[k] # 46

StemOf(f) ==
    IF f = None THEN None
    ELSE IF LastDot(f.v) <= 1 THEN Some(f.v)
    ELSE Some(SubSeq(f.v, 1, LastDot(f.v) - 1))

file_stem(p) == StemOf(file_name(p))

\* OsStr::to_str: None unless the bytes are valid Unicode
to_str(s) == IF IsUtf8(s) THEN Some(s) ELSE None

-----------------------------------------------------------------------------
(* binding.rs: the three implementations of Binding. *)

HashMapBinding(name, content) ==
    [variant |-> "HashMapBinding", name |-> name, content |-> content]

ConfigTreeBinding(root) ==
    [variant |-> "ConfigTreeBinding", root |-> root]

CacheBinding(d) ==
    [variant |-> "CacheBinding", delegate |-> d, cache |-> EmptyMap]

\* HashMapBinding::get_as_bytes
HashMapBinding_get_as_bytes(b, key) ==
    IF ~is_valid_secret_key(key) THEN None
    ELSE IF key \notin DOMAIN b.content THEN None
    ELSE Some(b.content[key])

\* what root.join(key) names in the file system, for a key without '/': the
\* directory `tree` is what lies at the root of the ConfigTreeBinding
Stat(key) ==
    IF tree.kind # "dir" THEN [kind |-> "missing"]
    ELSE IF key \in {<<>>, <<46>>, <<46, 46>>} THEN [kind |-> "dir"]
    ELSE IF key \in DOMAIN tree.files THEN tree.files[key]
    ELSE [kind |-> "missing"]

\* fs::read(p).ok(), once p exists and is a file
ReadFile(p) ==
    IF p.kind = "missing" \/ p.kind # "file" THEN None
    ELSE IF p.readable THEN Some(p.data) ELSE None

\* a ConfigTreeBinding that reads whatever file the key names
ConfigTreeBinding_get_as_bytes_unchecked(b, key) == ReadFile(Stat(key))

\* ConfigTreeBinding::get_as_bytes
ConfigTreeBinding_get_as_bytes(b, key) ==
    IF ~is_valid_secret_key(key) THEN None ELSE ReadFile(Stat(key))

\* Binding::get_as_bytes on any implementation: what it returns (ret), the
\* binding afterwards (self: a CacheBinding's cache may have grown) and whether
\* a CacheBinding asked its delegate (asked)
\* a CacheBinding that remembers a miss as an empty value
CacheBinding_vacant_keeps_miss(b, key, r) ==
    IF r.ret = None
    THEN [ret |-> None,
          self |-> [b EXCEPT !.delegate = r.self,
                             !.cache = (key :> <<>>) @@ b.cache],
          asked |-> TRUE]
    ELSE [ret |-> Some(r.ret.v),
          self |-> [b EXCEPT !.delegate = r.self,
                             !.cache = (key :> r.ret.v) @@ b.cache],
          asked |-> TRUE]

\* a CacheBinding that holds one entry, a new value evicting the one before
CacheBinding_vacant_evicts(b, key, r) ==
    IF r.ret = None
    THEN [ret |-> None,
          self |-> [b EXCEPT !.delegate = r.self],
          asked |-> TRUE]
    ELSE [ret |-> Some(r.ret.v),
          self |-> [b EXCEPT !.delegate = r.self,
                             !.cache = (key :> r.ret.v)],
          asked |-> TRUE]

\* CacheBinding::get_as_bytes on a vacant entry, r being what the delegate
\* answered: only a value is inserted
CacheBinding_vacant(b, key, r) ==
    IF r.ret = None
    THEN [ret |-> None,
          self |-> [b EXCEPT !.delegate = r.self],
          asked |-> TRUE]
    ELSE [ret |-> Some(r.ret.v),
          self |-> [b EXCEPT !.delegate = r.self,
                             !.cache = (key :> r.ret.v) @@ b.cache],
          asked |-> TRUE]

RECURSIVE get_as_bytes(_, _)

\* a CacheBinding that asks its delegate on every call
get_as_bytes_uncached(b, key) ==
    CASE b.variant = "HashMapBinding" ->
            [ret |-> HashMapBinding_get_as_bytes(b, key), self |-> b, asked |-> FALSE]
      [] b.variant = "ConfigTreeBinding" ->
            [ret |-> ConfigTreeBinding_get_as_bytes(b, key), self |-> b, asked |-> FALSE]
      [] b.variant = "CacheBinding" ->
            CacheBinding_vacant(b, key, get_as_bytes(b.delegate, key))

\* Binding::get_as_bytes on any implementation: what it returns (ret), the
\* binding afterwards (self: a CacheBinding's cache may have grown) and whether
\* a CacheBinding asked its delegate (asked)
get_as_bytes(b, key) ==
    CASE b.variant = "HashMapBinding" ->
            [ret |-> HashMapBinding_get_as_bytes(b, key), self |-> b, asked |-> FALSE]
      [] b.variant = "ConfigTreeBinding" ->
            [ret |-> ConfigTreeBinding_get_as_bytes(b, key), self |-> b, asked |-> FALSE]
      [] b.variant = "CacheBinding" ->
            IF key \in DOMAIN b.cache
            THEN [ret |-> Some(b.cache[key]), self |-> b, asked |-> FALSE]
            ELSE CacheBinding_vacant(b, key, get_as_bytes(b.delegate, key))

\* and_then(to_str).map(to_string).unwrap() of an Option<&OsStr>
UnwrapStr(s) ==
    IF s = None THEN Panic
    ELSE IF to_str(s.v) = None THEN Panic
    ELSE Return(to_str(s.v).v)

\* ConfigTreeBinding::get_name
ConfigTreeBinding_get_name(b) == UnwrapStr(file_stem(b.root))

\* Binding::get_name on any implementation
RECURSIVE get_name(_)
get_name(b) ==
    CASE b.variant = "HashMapBinding" -> Return(b.name)
      [] b.variant = "ConfigTreeBinding" -> ConfigTreeBinding_get_name(b)
      [] b.variant = "CacheBinding" -> get_name(b.delegate)

\* a get that trims only the end of the text
Decode_trim_end(r) ==
    [ret |-> IF r.ret = None THEN None
             ELSE IF IsUtf8(r.ret.v) THEN Some(TrimEnd(r.ret.v))
             ELSE Panic,
     self |-> r.self,
     asked |-> r.asked]

\* Binding::get: the bytes decoded as UTF-8 and trimmed; the unwrap() of a
\* failed decoding panics
Decode(r) ==
    [ret |-> IF r.ret = None THEN None
             ELSE IF IsUtf8(r.ret.v) THEN Some(Trim(r.ret.v))
             ELSE Panic,
     self |-> r.self,
     asked |-> r.asked]

get(b, key) == Decode(get_as_bytes(b, key))

\* Binding::get_provider
get_provider(b) == get(b, PROVIDER)

\* a get_type that takes a missing type for an empty one
TypeResult_empty(r) ==
    [ret |-> IF r.ret = None THEN Ok(<<>>)
             ELSE IF r.ret = Panic THEN Panic
             ELSE Ok(r.ret.v),
     self |-> r.self,
     asked |-> r.asked]

\* Binding::get_type's match on what get(TYPE) gave
TypeResult(r) ==
    [ret |-> IF r.ret = None
             THEN Err(InvalidBindingError("binding does not contain a type"))
             ELSE IF r.ret = Panic THEN Panic
             ELSE Ok(r.ret.v),
     self |-> r.self,
     asked |-> r.asked]

\* Binding::get_type
get_type(b) == TypeResult(get(b, TYPE))

-----------------------------------------------------------------------------
(* bindings.rs: the operations on a Vec of bindings. *)

\* cached
cached(bs) == [i \in 1..Len(bs) |-> CacheBinding(bs[i])]

\* find: the first binding whose name matches; a get_name that panics before a
\* match is found unwinds out of find
RECURSIVE find(_, _)

\* a find that compares the names exactly
FindStep_exact(bs, name, n) ==
    IF n = Panic THEN Panic
    ELSE IF n.v = name THEN Return(Some(Head(bs)))
    ELSE find(Tail(bs), name)

\* find's closure on the first binding, n being its name, and the rest of the scan
FindStep(bs, name, n) ==
    IF n = Panic THEN Panic
    ELSE IF EqIgnoreAsciiCase(n.v, name) THEN Return(Some(Head(bs)))
    ELSE find(Tail(bs), name)

find(bs, name) ==
    IF bs = <<>> THEN Return(None)
    ELSE FindStep(bs, name, get_name(Head(bs)))

\* b.get_type().unwrap().eq_ignore_ascii_case(t), r being what get_type gave:
\* the unwrap() panics on Err
UnwrapTypeMatches(r, t) ==
    IF r.ret.tag # "Ok" THEN [out |-> "panic", self |-> r.self]
    ELSE IF ~EqIgnoreAsciiCase(r.ret.v, t) THEN [out |-> "false", self |-> r.self]
    ELSE [out |-> "pass", self |-> r.self]

\* the type half of filter_with_provider's closure
FilterType(b, binding_type) ==
    IF binding_type = None THEN [out |-> "pass", self |-> b]
    ELSE UnwrapTypeMatches(get_type(b), binding_type.v)

\* the match on b.get_provider(), r being what it gave
ProviderMatches(r, p) ==
    IF r.ret = Panic THEN [out |-> "panic", self |-> r.self]
    ELSE IF r.ret = None THEN [out |-> "false", self |-> r.self]
    ELSE IF ~EqIgnoreAsciiCase(r.ret.v, p) THEN [out |-> "false", self |-> r.self]
    ELSE [out |-> "true", self |-> r.self]

\* the provider half of filter_with_provider's closure
FilterProvider(t, provider) ==
    IF t.out # "pass" THEN t
    ELSE IF provider = None THEN [out |-> "true", self |-> t.self]
    ELSE ProviderMatches(get_provider(t.self), provider.v)

\* filter_with_provider's closure on one binding
FilterClosure(b, binding_type, provider) ==
    FilterProvider(FilterType(b, binding_type), provider)

\* the bindings of the entries a closure kept, in order
Selves(kept) == [i \in 1..Len(kept) |-> kept[i].self]

\* collect(): a panic of the closure on any element unwinds out of the call
Collect(outs, yes) ==
    IF \E i \in 1..Len(outs) : outs[i].out = "panic"
    THEN Panic
    ELSE Return(Selves(SelectSeq(outs, LAMBDA o : o.out = yes)))

\* filter_with_provider: into_iter().filter(closure).collect()
filter_with_provider(bs, binding_type, provider) ==
    Collect([i \in 1..Len(bs) |-> FilterClosure(bs[i], binding_type, provider)],
            "true")

\* filter
filter(bs, binding_type) == filter_with_provider(bs, Some(binding_type), None)

\* one entry of read_dir's iterator: Ok(DirEntry) for a child directory
\* (with the files it holds) or a child file, or Err
DirChild(name, files) ==
    [err |-> FALSE, name |-> name, kind |-> "dir", files |-> files]
FileChild(name) ==
    [err |-> FALSE, name |-> name, kind |-> "file", files |-> EmptyMap]
ErrChild ==
    [err |-> TRUE, name |-> <<>>, kind |-> "err", files |-> EmptyMap]

\* the closure of from's filter_map on one entry: to_str().unwrap() panics on
\* a name that is not valid Unicode
FromEntry(c) ==
    IF c.err THEN [out |-> "skip"]
    ELSE IF c.kind # "dir" THEN [out |-> "skip"]
    ELSE IF to_str(c.name) = None THEN [out |-> "panic"]
    ELSE [out |-> "some", self |-> HashMapBinding(to_str(c.name).v, EmptyMap)]

\* from: fs maps each path that exists to what lies there
from(root) ==
    IF root \notin DOMAIN fs \/ fs[root].kind # "dir" THEN Return(<<>>)
    ELSE IF ~fs[root].listable THEN Return(<<>>)
    ELSE Collect([i \in 1..Len(fs[root].entries) |-> FromEntry(fs[root].entries[i])],
                 "some")

\* from_service_binding_root
from_service_binding_root ==
    IF env = None THEN Return(<<>>) ELSE from(env.v)

-----------------------------------------------------------------------------
(* The inputs the specifications draw from. *)

\* byte strings: "t", "T\n", "u", "U", "p", "q", "P", "Q", " v\n"
BindingPool ==
    { HashMapBinding(<<110>>, (TYPE :> <<116>>) @@ (PROVIDER :> <<112>>)),
      HashMapBinding(<<78>>, (TYPE :> <<84, 10>>) @@ (PROVIDER :> <<113>>)),
      HashMapBinding(<<109>>, (TYPE :> <<117>>)),
      HashMapBinding(<<120>>, (PROVIDER :> <<80>>)),
      HashMapBinding(<<110>>, (TYPE :> <<116>>) @@ (PROVIDER :> <<81, 32>>)) }

TypeArgs == {None, Some(<<116>>), Some(<<85>>)}
ProviderArgs == {None, Some(<<112>>), Some(<<81>>)}
NameArgs == {<<110>>, <<77>>, <<122>>}

\* the sequences over S of length at most n
SeqsUpTo(S, n) == UNION {[1..k -> S] : k \in 0..n}

NoCall == [op |-> "none", result |-> None]

-----------------------------------------------------------------------------
(* Spec: the caller builds a Vec of HashMapBindings and filters and searches *)
(* it.  A call consumes the Vec; the caller goes on with what it returned.   *)
(* After a panic the process is gone and nothing more happens.               *)

Init ==
    /\ bindings \in SeqsUpTo(BindingPool, MaxBindings)
    /\ fs = EmptyMap
    /\ env = None
    /\ binding = None
    /\ tree = None
    /\ calls = EmptyMap
    /\ lookups = EmptyMap
    /\ last = NoCall

Held(r) == IF r = Panic THEN <<>> ELSE r.v

FilterWithProvider(binding_type, provider) ==
    /\ last.result # Panic
    /\ LET r == filter_with_provider(bindings, binding_type, provider) IN
       /\ last' = [op |-> "filter_with_provider", input |-> bindings,
                   binding_type |-> binding_type, provider |-> provider,
                   result |-> r]
       /\ bindings' = Held(r)
    /\ UNCHANGED <<fs, env, binding, tree, calls, lookups>>

Filter(binding_type) ==
    /\ last.result # Panic
    /\ LET r == filter(bindings, binding_type) IN
       /\ last' = [op |-> "filter", input |-> bindings,
                   binding_type |-> binding_type, result |-> r]
       /\ bindings' = Held(r)
    /\ UNCHANGED <<fs, env, binding, tree, calls, lookups>>

Find(name) ==
    /\ last.result # Panic
    /\ LET r == find(bindings, name) IN
       /\ last' = [op |-> "find", input |-> bindings, name |-> name, result |-> r]
       /\ bindings' = IF r = Panic \/ r.v = None THEN <<>> ELSE <<r.v.v>>
    /\ UNCHANGED <<fs, env, binding, tree, calls, lookups>>

Next ==
    \/ \E t \in TypeArgs, p \in ProviderArgs : FilterWithProvider(t, p)
    \/ \E t \in TypeArgs \ {None} : Filter(t.v)
    \/ \E n \in NameArgs : Find(n)

Spec == Init /\ [][Next]_vars

-----------------------------------------------------------------------------
(* Claims about filter_with_provider, filter and find (under Spec). *)

\* what the claims say a binding must satisfy to pass the filters
TypeMatches(b, binding_type) ==
    \/ binding_type = None
    \/ /\ get_type(b).ret.tag = "Ok"
       /\ EqIgnoreAsciiCase(get_type(b).ret.v, binding_type.v)

ProviderIs(b, provider) ==
    \/ provider = None
    \/ /\ get_provider(b).ret.tag = "Some"
       /\ EqIgnoreAsciiCase(get_provider(b).ret.v, provider.v)

DeclaresNoType(b) == get_type(b).ret.tag = "Err"

\* C1: filter_with_provider called with a type filter completes and returns a
\* sequence, no binding without a `type` key is in it, and the bindings that
\* declare a type are filtered as usual.
C1_MissingTypeIsExcluded ==
    (last.op = "filter_with_provider" /\ last.binding_type # None) =>
        /\ last.result.tag = "Return"
        /\ \A i \in 1..Len(last.result.v) : ~DeclaresNoType(last.result.v[i])
        /\ last.result.v =
              SelectSeq(last.input,
                        LAMBDA b : /\ ~DeclaresNoType(b)
                                   /\ TypeMatches(b, last.binding_type)
                                   /\ ProviderIs(b, last.provider))

\* C7: filter_with_provider returns exactly the subsequence, in the original
\* order, of the bindings that match the type filter (when given) and the
\* provider filter (when given); with neither it returns its input; and filter
\* is filter_with_provider with no provider.
C7_FilterIsMatchingSubsequence ==
    /\ last.op = "filter_with_provider" =>
          last.result =
              Return(SelectSeq(last.input,
                               LAMBDA b : /\ TypeMatches(b, last.binding_type)
                                          /\ ProviderIs(b, last.provider)))
    /\ (last.op = "filter_with_provider"
            /\ last.binding_type = None /\ last.provider = None) =>
          last.result = Return(last.input)
    /\ last.op = "filter" =>
          last.result =
              Return(SelectSeq(last.input,
                               LAMBDA b : TypeMatches(b, Some(last.binding_type))))

\* the positions of the bindings named `name`, ignoring ASCII case
NameMatches(bs, name) ==
    {i \in 1..Len(bs) : EqIgnoreAsciiCase(get_name(bs[i]).v, name)}

\* C8: find returns the first binding, in sequence order, whose name equals the
\* name asked for ignoring ASCII case, and None exactly when no name matches.
C8_FindFirstMatch ==
    last.op = "find" =>
        /\ last.result.tag = "Return"
        /\ (last.result.v = None) <=> (NameMatches(last.input, last.name) = {})
        /\ \A i \in NameMatches(last.input, last.name) :
              (\A j \in NameMatches(last.input, last.name) : i <= j)
                  => last.result.v = Some(last.input[i])

\* C8's case: a binding named "N" is found by "n", after a binding that does
\* not match and before a different binding that matches too.
C8_Witness ==
    /\ last.op = "find"
    /\ last.result.tag = "Return"
    /\ last.result.v # None
    /\ \E i, j \in NameMatches(last.input, last.name) :
          /\ 1 < i /\ i < j
          /\ 1 \notin NameMatches(last.input, last.name)
          /\ last.input[i] # last.input[j]
          /\ last.input[i].name # last.name
          /\ last.result.v.v = last.input[i]

-----------------------------------------------------------------------------
(* SpecDiscover: the consumer flow of tests/example.rs.  The caller reads    *)
(* the bindings of a root (from, from_service_binding_root), filters them by *)
(* type and reads keys of the bindings it holds.                             *)

RootPath == <<114>>       \* "r", the service binding root
MissingPath == <<109>>    \* "m", a path at which nothing lies

\* children of the root: directories "a" (type "t\n", k " v\n"), "B" (empty),
\* "c.d" (type "T") and one whose name is the byte 255, a file "f", and an
\* entry read_dir fails to read
EntryPool ==
    { DirChild(<<97>>, (TYPE :> <<116, 10>>) @@ (<<107>> :> <<32, 118, 10>>)),
      DirChild(<<66>>, EmptyMap),
      DirChild(<<99, 46, 100>>, (TYPE :> <<84>>)),
      DirChild(<<255>>, (TYPE :> <<116>>)),
      FileChild(<<102>>),
      ErrChild }

\* the listings of a directory: no two entries are the same child
Listings ==
    {es \in SeqsUpTo(EntryPool, MaxEntries) :
        \A i, j \in 1..Len(es) : es[i] = es[j] => i = j}

\* what lies at RootPath: nothing, a file, a directory that cannot be read, or
\* a directory with a listing
FsWorlds ==
    {EmptyMap,
     RootPath :> [kind |-> "file", listable |-> FALSE, entries |-> <<>>],
     RootPath :> [kind |-> "dir", listable |-> FALSE, entries |-> <<>>]}
    \cup {RootPath :> [kind |-> "dir", listable |-> TRUE, entries |-> es] :
             es \in Listings}

KeyArgs == {TYPE, <<107>>, <<94>>}

InitDiscover ==
    /\ bindings = <<>>
    /\ fs \in FsWorlds
    /\ env \in {None, Some(RootPath)}
    /\ binding = None
    /\ tree = None
    /\ calls = EmptyMap
    /\ lookups = EmptyMap
    /\ last = NoCall

From(root) ==
    /\ last.result # Panic
    /\ LET r == from(root) IN
       /\ last' = [op |-> "from", root |-> root, result |-> r]
       /\ bindings' = Held(r)
    /\ UNCHANGED <<fs, env, binding, tree, calls, lookups>>

FromServiceBindingRoot ==
    /\ last.result # Panic
    /\ LET r == from_service_binding_root IN
       /\ last' = [op |-> "from_service_binding_root", result |-> r]
       /\ bindings' = Held(r)
    /\ UNCHANGED <<fs, env, binding, tree, calls, lookups>>

\* c[i].get(key) on a binding of the Vec the caller holds
GetOf(i, key) ==
    /\ last.result # Panic
    /\ i \in 1..Len(bindings)
    /\ LET r == get(bindings[i], key) IN
       /\ last' = [op |-> "get", input |-> bindings, index |-> i, key |-> key,
                   result |-> r.ret]
       /\ bindings' = [bindings EXCEPT ![i] = r.self]
    /\ UNCHANGED <<fs, env, binding, tree, calls, lookups>>

NextDiscover ==
    \/ \E root \in {RootPath, MissingPath} : From(root)
    \/ FromServiceBindingRoot
    \/ \E t \in TypeArgs \ {None} : Filter(t.v)
    \/ \E i \in 1..MaxEntries, key \in KeyArgs : GetOf(i, key)

SpecDiscover == InitDiscover /\ [][NextDiscover]_vars

-----------------------------------------------------------------------------
(* Claims about from and the consumer flow (under SpecDiscover). *)

\* the child directories of the root, in the order read_dir lists them
ChildDirs(root) ==
    IF root \in DOMAIN fs /\ fs[root].kind = "dir" /\ fs[root].listable
    THEN SelectSeq(fs[root].entries, LAMBDA c : ~c.err /\ c.kind = "dir")
    ELSE <<>>

\* C4: with a child directory of the root holding a `type` file of value T,
\* filter(from(root), T) returns, a binding for that directory is in the
\* result, and get(key) on it is the trimmed content of the directory's file.
C4_ConsumerFlow ==
    \A i \in 1..Len(ChildDirs(RootPath)) :
        LET c == ChildDirs(RootPath)[i] IN
        ( /\ last.op = "filter"
          /\ from(RootPath) = Return(last.input)
          /\ TYPE \in DOMAIN c.files
          /\ EqIgnoreAsciiCase(Trim(c.files[TYPE]), last.binding_type) )
        => /\ last.result.tag = "Return"
           /\ \E j \in 1..Len(last.result.v) :
                 /\ get_name(last.result.v[j]) = Return(c.name)
                 /\ \A key \in DOMAIN c.files :
                       get(last.result.v[j], key).ret = Some(Trim(c.files[key]))

\* C9: from never fails; it returns no binding when the root is missing, is
\* not a directory or cannot be listed, and otherwise one binding per child
\* directory, named by the child's file name; every binding it returns is
\* empty: no key has a value and get_type is the InvalidBindingError.
C9_FromListsChildDirectories ==
    last.op = "from" =>
        /\ last.result.tag = "Return"
        /\ Len(last.result.v) = Len(ChildDirs(last.root))
        /\ \A i \in 1..Len(last.result.v) :
              /\ get_name(last.result.v[i]) = Return(ChildDirs(last.root)[i].name)
              /\ \A key \in KeyArgs \cup DOMAIN ChildDirs(last.root)[i].files :
                    /\ get_as_bytes(last.result.v[i], key).ret = None
                    /\ get(last.result.v[i], key).ret = None
              /\ get_type(last.result.v[i]).ret =
                    Err(InvalidBindingError("binding does not contain a type"))

-----------------------------------------------------------------------------
(* SpecBinding: the caller holds one binding, a HashMapBinding or a          *)
(* ConfigTreeBinding, bare or wrapped in a CacheBinding, and queries it.     *)
(* The mounted directory of a ConfigTreeBinding may change between calls.    *)
(* calls and lookups count as the StubBinding of the tests does.             *)

\* the keys asked for: "type", "provider", "^" and the empty key
BKeys == {TYPE, PROVIDER, <<94>>, <<>>}

\* the contents of a HashMapBinding: type absent, " t\n" or the byte 255;
\* provider absent or "p "; "^" absent or "v"; "" absent or "e"
MapOf(S, vals) == [k \in S |-> vals[k]]

Contents ==
    {MapOf(S, (TYPE :> t) @@ (PROVIDER :> <<112, 32>>)
                  @@ (<<94>> :> <<118>>) @@ (<<>> :> <<101>>)) :
        S \in SUBSET BKeys, t \in {<<32, 116, 10>>, <<255>>}}

File(data) == [kind |-> "file", data |-> data, readable |-> TRUE]
Unreadable == [kind |-> "file", data |-> <<>>, readable |-> FALSE]
Dir == [kind |-> "dir"]

\* what may lie at root/type: a file " t\n", a file of the byte 255, a file
\* that cannot be read, a directory
TypeNodes == {File(<<32, 116, 10>>), File(<<255>>), Unreadable, Dir}

\* the directories a ConfigTreeBinding may be rooted at
Trees ==
    {[kind |-> "dir",
      files |-> MapOf(S, (TYPE :> t) @@ (PROVIDER :> File(<<112, 32>>))
                             @@ (<<94>> :> File(<<118>>)))] :
        S \in SUBSET {TYPE, PROVIDER, <<94>>}, t \in TypeNodes}

MissingTree == [kind |-> "missing", files |-> EmptyMap]
FileTree == [kind |-> "file", files |-> EmptyMap]

\* roots: "d/b", "b.c", ".b", "b/", "d/b.c.e", ".."
DefaultRoot == <<100, 47, 98>>
RootArgs ==
    {DefaultRoot, <<98, 46, 99>>, <<46, 98>>, <<98, 47>>,
     <<100, 47, 98, 46, 99, 46, 101>>, <<46, 46>>}

\* a store and the directory at its root
Stores ==
    {<<HashMapBinding(<<110>>, c), MissingTree>> : c \in Contents}
    \cup {<<ConfigTreeBinding(DefaultRoot), t>> :
             t \in Trees \cup {MissingTree, FileTree}}
    \cup {<<ConfigTreeBinding(root), MissingTree>> : root \in RootArgs}

InitBinding ==
    /\ bindings = <<>>
    /\ fs = EmptyMap
    /\ env = None
    /\ \E s \in Stores :
          /\ binding \in {s[1], CacheBinding(s[1])}
          /\ tree = s[2]
    /\ calls = [k \in BKeys |-> 0]
    /\ lookups = [k \in BKeys |-> 0]
    /\ last = NoCall

\* the store behind the binding the caller holds
StoreOf(b) == IF b.variant = "CacheBinding" THEN b.delegate ELSE b

\* a query for `key` that ended as r: the cache it left, the counters, the outcome
Lookup(op, key, r) ==
    /\ last.result # Panic
    /\ lookups[key] < MaxLookups
    /\ binding' = r.self
    /\ lookups' = [lookups EXCEPT ![key] = @ + 1]
    /\ calls' = [calls EXCEPT ![key] = IF r.asked THEN @ + 1 ELSE @]
    /\ last' = [op |-> op, key |-> key, result |-> r.ret]
    /\ UNCHANGED <<bindings, fs, env, tree>>

GetAsBytes(key) == Lookup("get_as_bytes", key, get_as_bytes(binding, key))

Get(key) == Lookup("get", key, get(binding, key))

GetProvider == Lookup("get_provider", PROVIDER, get_provider(binding))

GetType == Lookup("get_type", TYPE, get_type(binding))

GetName ==
    /\ last.result # Panic
    /\ last' = [op |-> "get_name", key |-> <<>>, result |-> get_name(binding)]
    /\ UNCHANGED <<bindings, fs, env, binding, tree, calls, lookups>>

\* the platform rewrites, adds or removes the file `type` of the mounted
\* directory
TreeWrite(node) ==
    /\ last.result # Panic
    /\ StoreOf(binding).variant = "ConfigTreeBinding"
    /\ tree.kind = "dir"
    /\ tree' \in Trees
    /\ tree' # tree
    /\ \A k \in {PROVIDER, <<94>>} :
          /\ k \in DOMAIN tree'.files <=> k \in DOMAIN tree.files
    /\ TYPE \in DOMAIN tree'.files <=> node # None
    /\ node # None => tree'.files[TYPE] = node.v
    /\ last' = [op |-> "write", key |-> TYPE, result |-> node]
    /\ UNCHANGED <<bindings, fs, env, binding, calls, lookups>>

NextBinding ==
    \/ \E key \in BKeys : GetAsBytes(key)
    \/ \E key \in BKeys : Get(key)
    \/ GetProvider
    \/ GetType
    \/ GetName
    \/ \E node \in {None} \cup {Some(n) : n \in TypeNodes} : TreeWrite(node)

SpecBinding == InitBinding /\ [][NextBinding]_vars

-----------------------------------------------------------------------------
(* Claims about one binding (under SpecBinding). *)

Wrapped == binding.variant = "CacheBinding"

NoType == Err(InvalidBindingError("binding does not contain a type"))

\* C2, one step: a key the cache holds is not asked of the delegate again, its
\* entry stays, and a get_as_bytes for it returns the stored value.
C2_Step ==
    \A k \in BKeys :
        (Wrapped /\ k \in DOMAIN binding.cache) =>
            /\ calls'[k] = calls[k]
            /\ k \in DOMAIN binding'.cache
            /\ binding'.cache[k] = binding.cache[k]
            /\ (lookups'[k] # lookups[k] /\ last'.op = "get_as_bytes")
                  => last'.result = Some(binding.cache[k])

\* C2: once the delegate of a CacheBinding has returned a value for a key, no
\* later call for the key invokes the delegate and each returns the stored
\* value; a delegate whose content is fixed is invoked exactly once for it.
C2_DelegateAskedOnce ==
    /\ [][C2_Step]_vars
    /\ [](\A k \in BKeys :
            (Wrapped /\ k \in DOMAIN binding.cache) =>
                /\ calls[k] >= 1
                /\ binding.delegate.variant = "HashMapBinding" => calls[k] = 1)

\* C2's case: the second get_as_bytes for a key the delegate holds, answered
\* from the cache.
C2_Witness ==
    /\ Wrapped
    /\ last.op = "get_as_bytes"
    /\ last.key \in DOMAIN binding.cache
    /\ lookups[last.key] = 2
    /\ calls[last.key] = 1
    /\ last.result = Some(binding.cache[last.key])

\* C3, one step: a lookup the delegate answers with None returns absent,
\* leaves the cache as it was and has invoked the delegate.
C3_Step ==
    \A k \in BKeys :
        ( /\ Wrapped
          /\ lookups'[k] # lookups[k]
          /\ k \notin DOMAIN binding.cache
          /\ get_as_bytes(binding.delegate, k).ret = None )
        => /\ binding'.cache = binding.cache
           /\ calls'[k] = calls[k] + 1
           /\ last'.result \in {None, NoType}

\* C3: a miss is never cached: the delegate's None is passed on, the cache is
\* unchanged, and n lookups of a key never found are n delegate invocations.
C3_MissIsNotCached ==
    /\ [][C3_Step]_vars
    /\ [](\A k \in BKeys :
            (Wrapped /\ k \notin DOMAIN binding.cache) => calls[k] = lookups[k])

\* C3's case: the second lookup of a valid key the delegate does not hold.
C3_Witness ==
    /\ Wrapped
    /\ last.op = "get_as_bytes"
    /\ last.key = PROVIDER
    /\ last.result = None
    /\ lookups[PROVIDER] = 2
    /\ calls[PROVIDER] = 2
    /\ PROVIDER \notin DOMAIN binding.cache

\* a key that is empty or has a character that is no letter, digit, '-', '_'
\* or '.'
InvalidKey(key) ==
    \/ key = <<>>
    \/ \E i \in 1..Len(key) :
          key[i] \notin (65..90) \cup (97..122) \cup (48..57) \cup {45, 95, 46}

\* C5: for an invalid key get_as_bytes and get return absent, whatever the
\* store holds, and no invalid key is ever in a CacheBinding's cache.
C5_InvalidKeyIsAbsent ==
    /\ (last.op \in {"get_as_bytes", "get"} /\ InvalidKey(last.key))
          => last.result = None
    /\ Wrapped => \A k \in DOMAIN binding.cache : ~InvalidKey(k)

\* C5's case: get of "^" on a CacheBinding around a ConfigTreeBinding whose
\* directory holds a file "^".
C5_Witness ==
    /\ Wrapped
    /\ binding.delegate.variant = "ConfigTreeBinding"
    /\ tree.kind = "dir"
    /\ <<94>> \in DOMAIN tree.files
    /\ tree.files[<<94>>].kind = "file"
    /\ last.op = "get"
    /\ last.key = <<94>>
    /\ last.result = None

\* C6: get_type is the error "binding does not contain a type" exactly when
\* get("type") is absent and otherwise Ok of the trimmed text of the entry;
\* no other operation reports an error, and get_provider of a binding without
\* provider is None.
C6_TypeIsMandatory ==
    /\ last.op = "get_type" =>
          /\ (last.result = NoType) <=> (get(binding, TYPE).ret = None)
          /\ last.result.tag = "Err" => last.result = NoType
          /\ get(binding, TYPE).ret.tag = "Some" =>
                /\ last.result = Ok(get(binding, TYPE).ret.v)
                /\ last.result.v = Trim(get_as_bytes(binding, TYPE).ret.v)
          /\ StoreOf(binding).variant = "HashMapBinding" =>
                (last.result = NoType <=> TYPE \notin DOMAIN StoreOf(binding).content)
    /\ last.op = "get_provider" =>
          /\ last.result = get(binding, PROVIDER).ret
          /\ get_as_bytes(binding, PROVIDER).ret = None => last.result = None
    /\ last.op \in {"get", "get_as_bytes", "get_provider", "get_name"} =>
          last.result.tag # "Err"

\* C6's case: get_type on a binding that has a provider and no type.
C6_Witness ==
    /\ last.op = "get_type"
    /\ last.result = NoType
    /\ get_provider(binding).ret.tag = "Some"

\* C10: get_name of a ConfigTreeBinding is the complete final component of its
\* root, whenever the root has one.
C10_NameIsFinalComponent ==
    ( /\ last.op = "get_name"
      /\ StoreOf(binding).variant = "ConfigTreeBinding"
      /\ file_name(StoreOf(binding).root) # None )
    => last.result = Return(file_name(StoreOf(binding).root).v)

\* what the store behind the binding holds under a key, read off the content
\* mapping or the mounted directory
Stored(key) ==
    IF StoreOf(binding).variant = "HashMapBinding"
    THEN IF key \in DOMAIN StoreOf(binding).content
         THEN Some(StoreOf(binding).content[key])
         ELSE None
    ELSE IF tree.kind = "dir" /\ key \in DOMAIN tree.files
              /\ tree.files[key].kind = "file" /\ tree.files[key].readable
         THEN Some(tree.files[key].data)
         ELSE None

\* a CacheBinding around a ConfigTreeBinding may hold what the directory held
\* at an earlier call
FixedStore == ~Wrapped \/ binding.delegate.variant = "HashMapBinding"

\* get returned `result` where get_as_bytes gives `bytes`: absent together, and
\* otherwise the text of the bytes without its surrounding whitespace
TrimmedTextOf(result, bytes) ==
    /\ result = None <=> bytes = None
    /\ bytes # None => result = Some(Trim(bytes.v))

\* the same, the bytes being valid UTF-8; bytes that are not make get panic
TrimmedTextOrPanic(result, bytes) ==
    /\ result = None <=> bytes = None
    /\ (bytes # None /\ IsUtf8(bytes.v)) => result = Some(Trim(bytes.v))
    /\ (bytes # None /\ ~IsUtf8(bytes.v)) => result = Panic

\* get_as_bytes returned `result`: the stored bytes as they are
StoredBytes(result, key) ==
    /\ result # None => result = Stored(key)
    /\ (result = None /\ is_valid_secret_key(key)) => Stored(key) = None

\* C11 as stated: for every binding and key, get is absent exactly when
\* get_as_bytes is and is otherwise the UTF-8 decoding of the bytes, trimmed;
\* get_as_bytes returns the stored bytes unmodified; a repeated get returns
\* the same value.
C11_GetIsTrimmedDecoding ==
    /\ last.op = "get" =>
          /\ TrimmedTextOf(last.result, get_as_bytes(binding, last.key).ret)
          /\ last.result = get(binding, last.key).ret
    /\ (last.op = "get_as_bytes" /\ FixedStore) =>
          StoredBytes(last.result, last.key)

\* C11, one step: a get that follows a get of the same key, the binding not
\* having changed in between, returns what the first returned.
C11_Step ==
    (last.op = "get" /\ last'.op = "get" /\ last'.key = last.key
        /\ lookups'[last.key] # lookups[last.key])
    => last'.result = last.result

\* C11, amended: get is absent exactly when get_as_bytes is; when the bytes
\* are valid UTF-8, get is their text without leading and trailing whitespace;
\* when they are not, get panics.  get_as_bytes returns the stored bytes
\* unmodified, and a repeated get of a key returns the same value.
C11_GetIsTrimmedDecodingOfUtf8 ==
    /\ [][C11_Step]_vars
    /\ []( /\ last.op = "get" =>
                /\ TrimmedTextOrPanic(last.result, get_as_bytes(binding, last.key).ret)
                /\ last.result = get(binding, last.key).ret
           /\ (last.op = "get_as_bytes" /\ FixedStore) =>
                StoredBytes(last.result, last.key) )

\* C11's case: the second get of "type", stored as " t\n", on a CacheBinding:
\* get gives "t" and get_as_bytes still gives " t\n".
C11_Witness ==
    /\ Wrapped
    /\ last.op = "get"
    /\ last.key = TYPE
    /\ lookups[TYPE] = 2
    /\ last.result = Some(<<116>>)
    /\ get_as_bytes(binding, TYPE).ret = Some(<<32, 116, 10>>)
    /\ Stored(TYPE) = Some(<<32, 116, 10>>)

\* the wrapper answers a key as its delegate does
SameAnswer(k) ==
    get_as_bytes(binding, k).ret = get_as_bytes(binding.delegate, k).ret

\* C13, one step: the cache of a CacheBinding keeps every entry with its
\* value, a new entry is the value the delegate returned for the key asked,
\* the delegate stays the same, and while the mounted directory is not
\* rewritten a key answered as the delegate answers it stays so.
C13_Step ==
    Wrapped =>
        /\ binding'.delegate = binding.delegate
        /\ \A k \in DOMAIN binding.cache :
              /\ k \in DOMAIN binding'.cache
              /\ binding'.cache[k] = binding.cache[k]
        /\ \A k \in DOMAIN binding'.cache \ DOMAIN binding.cache :
              /\ k = last'.key
              /\ lookups'[k] = lookups[k] + 1
              /\ calls'[k] = calls[k] + 1
              /\ get_as_bytes(binding.delegate, k).ret = Some(binding'.cache[k])
        /\ (tree' = tree /\ binding.delegate.variant = "ConfigTreeBinding") =>
              \A k \in DOMAIN binding'.cache : SameAnswer(k) => SameAnswer(k)'

\* C13: a CacheBinding answers as its delegate does while the delegate's
\* content does not change: get_as_bytes, get and get_name return what the
\* delegate returns; the cache only grows, by values the delegate returned,
\* and a cached key is answered from the cache whatever the delegate holds by
\* then.
C13_CacheIsTransparent ==
    /\ [][C13_Step]_vars
    /\ [](Wrapped =>
            /\ \A k \in DOMAIN binding.cache :
                  /\ k \in BKeys
                  /\ calls[k] >= 1
                  /\ get_as_bytes(binding, k).ret = Some(binding.cache[k])
            /\ \A k \in BKeys \ DOMAIN binding.cache : SameAnswer(k)
            /\ binding.delegate.variant = "HashMapBinding" =>
                  /\ \A k \in DOMAIN binding.cache : SameAnswer(k)
                  /\ last.op = "get_as_bytes" =>
                        last.result = get_as_bytes(binding.delegate, last.key).ret
                  /\ last.op = "get" =>
                        last.result = get(binding.delegate, last.key).ret
            /\ last.op = "get_name" => last.result = get_name(binding.delegate))

\* C13's case: a CacheBinding around a HashMapBinding that holds a type and no
\* provider, asked twice for each: the type is cached, the provider is not,
\* and the last answer is the delegate's.
C13_Witness ==
    /\ Wrapped
    /\ binding.delegate.variant = "HashMapBinding"
    /\ DOMAIN binding.cache = {TYPE}
    /\ binding.cache[TYPE] = binding.delegate.content[TYPE]
    /\ PROVIDER \notin DOMAIN binding.delegate.content
    /\ lookups[TYPE] = 2
    /\ lookups[PROVIDER] = 2
    /\ last.op = "get_as_bytes"
    /\ last.result = get_as_bytes(binding.delegate, last.key).ret

-----------------------------------------------------------------------------
(* SpecSecret: the caller validates a key.  The validator keeps no state, so  *)
(* a behaviour makes one call and the behaviours differ in the key.          *)

\* the characters keys are made of: a z A Z 0 9 - _ . and, outside the class,
\* ^ / : @ [ ` { space and line feed
SecretChars ==
    {97, 122, 65, 90, 48, 57, 45, 95, 46, 94, 47, 58, 64, 91, 96, 123, 32, 10}

SecretKeys == SeqsUpTo(SecretChars, MaxKeyLen)

InitSecret ==
    /\ bindings = <<>>
    /\ fs = EmptyMap
    /\ env = None
    /\ binding = HashMapBinding(<<110>>, EmptyMap)
    /\ tree = MissingTree
    /\ calls = [k \in BKeys |-> 0]
    /\ lookups = [k \in BKeys |-> 0]
    /\ last = NoCall

IsValidSecretKey(key) ==
    /\ last' = [op |-> "is_valid_secret_key", key |-> key,
                result |-> is_valid_secret_key(key)]
    /\ UNCHANGED <<bindings, fs, env, binding, tree, calls, lookups>>

NextSecret ==
    /\ last = NoCall
    /\ \E key \in SecretKeys : IsValidSecretKey(key)

SpecSecret == InitSecret /\ [][NextSecret]_vars

-----------------------------------------------------------------------------
(* Claims about the key validator (under SpecSecret). *)

\* C12: is_valid_secret_key is true exactly of the keys of length at least 1
\* whose every character is an ASCII letter, a digit, '-', '_' or '.'; it is
\* false of the empty key and of keys with '^', '/', a space or a final line
\* feed.
C12_ValidKeyIsNonEmptyOfClass ==
    last.op = "is_valid_secret_key" =>
        /\ last.result <=> ~InvalidKey(last.key)
        /\ last.key = <<>> => ~last.result
        /\ (\E i \in 1..Len(last.key) : last.key[i] \in {94, 47, 32, 10})
              => ~last.result
        /\ (last.key # <<>> /\ last.key[Len(last.key)] = 10) => ~last.result

\* C12's case: the key "a\n", valid up to its final line feed, is rejected.
C12_Witness ==
    /\ last.op = "is_valid_secret_key"
    /\ last.key = <<97, 10>>
    /\ last.result = FALSE

====
